---------------------------- MODULE Spec2Model ----------------------------
(***************************************************************************)
(* Arduino trigger box (src/src_mcu/src/main.cpp): a TTL pulse train        *)
(* generator driven by a polling loop over millis().                        *)
(*                                                                         *)
(* The program's uint32_t values are modelled with a narrower word: all     *)
(* unsigned arithmetic is taken modulo Modulus, and long is the signed      *)
(* type of the same width.  The defaults written in the source (DT = 1000,  *)
(* T_meas = 8 h) are saturated to the model's word.                         *)
(*                                                                         *)
(* One step of the model is one iteration of loop(): the optional serial    *)
(* command followed by the scheduling part (lines 257-275).                 *)
(***************************************************************************)
EXTENDS Integers, Sequences, FiniteSets, TLC

\* ------------------------------------------------------------------ bounds
Modulus == 32          \* 2^5: the modelled unsigned word has 5 bits
MaxPulses == 4         \* pulses of one train the model follows
FLT_MANT_DIG == 3      \* bits of the significand of the modelled 32-bit float

UINT_MAX == Modulus - 1
LONG_MAX == (Modulus \div 2) - 1
LONG_MIN == 0 - (Modulus \div 2)

\* clock advance between two samples of millis() while a train runs: none,
\* one millisecond, less than a pulse width, more than a period, more than
\* two periods
Gaps == {0, 1, 3, 11, 25}
\* the same in an iteration that handles a command
CmdGaps == {0, 11}
\* clock values at which the operator starts a train
StartTimes == {0, Modulus - 12, Modulus - 3}
\* clock values at which the idle loop is observed
IdleTimes == StartTimes \cup {7}

\* --------------------------------------------------------------- constants
PULSE_WIDTH == 5
DT_DEFAULT == 1000
T_MEAS_DEFAULT == 8 * 3600 * 1000
CONSTRAIN_LOW == 10

Min(a, b) == IF a < b THEN a ELSE b

\* the hardware variants: _VARIANT_FEATHER_M4_ defined or not
Variants == {"FEATHER_M4", "UNO"}

\* ------------------------------------------------------ unsigned arithmetic
\* uint32_t a - b and a + b
Sub(a, b) == (a - b) % Modulus
Add(a, b) == (a + b) % Modulus
\* conversion of a long to uint32_t
ToUnsigned(v) == v % Modulus

\* ------------------------------------------------------------ serial lines
DigitChars == <<"0", "1", "2", "3", "4", "5", "6", "7", "8", "9">>
isdigit(c) == \E i \in 1..10 : DigitChars[i] = c
DigitVal(c) == (CHOOSE i \in 1..10 : DigitChars[i] = c) - 1
isspace(c) == c = " "

RECURSIVE SkipSpace(_, _)
SkipSpace(str, i) ==
    IF i <= Len(str) /\ isspace(str[i]) THEN SkipSpace(str, i + 1) ELSE i

\* the magnitude of the digits from position i on, capped above LONG_MAX + 1
RECURSIVE Magnitude(_, _, _)
Magnitude(str, i, acc) ==
    IF i <= Len(str) /\ isdigit(str[i])
    THEN Magnitude(str, i + 1, Min(acc * 10 + DigitVal(str[i]), LONG_MAX + 2))
    ELSE acc

\* strtol(str, NULL, 10): leading white space, an optional sign, the decimal
\* digits up to the first other character; 0 when there are no digits;
\* LONG_MAX or LONG_MIN when the value is out of the range of long.
strtol(str) ==
    LET i == SkipSpace(str, 1)
        neg == i <= Len(str) /\ str[i] = "-"
        j == IF i <= Len(str) /\ str[i] \in {"-", "+"} THEN i + 1 ELSE i
        mag == Magnitude(str, j, 0)
    IN  IF neg
        THEN (IF mag > LONG_MAX + 1 THEN LONG_MIN ELSE 0 - mag)
        ELSE (IF mag > LONG_MAX THEN LONG_MAX ELSE mag)

\* 2^n
RECURSIVE Pow2(_)
Pow2(n) == IF n = 0 THEN 1 ELSE 2 * Pow2(n - 1)

\* the unit in the last place of the float nearest to x
RECURSIVE Ulp(_, _)
Ulp(x, u) == IF x < u * Pow2(FLT_MANT_DIG) THEN u ELSE Ulp(x, 2 * u)

\* the conversion of the integer x >= 0 to a float of FLT_MANT_DIG bits,
\* rounded to nearest, ties to even
ToFloat(x) ==
    LET u == Ulp(x, 1)
        q == x \div u
        r == x % u
    IN  IF 2 * r > u \/ (2 * r = u /\ q % 2 = 1) THEN (q + 1) * u ELSE q * u

\* the conversion of the integer x >= 0 to double: 64 bits, which hold every
\* uint32_t, on the FEATHER_M4 and a 32-bit float on the UNO
ToDouble(v, x) == IF v = "UNO" THEN ToFloat(x) ELSE x

\* pow(2, 32) - 1, computed in double
CONSTRAIN_HIGH(v) == ToDouble(v, ToDouble(v, Modulus) - 1)

\* the Arduino macro constrain(amt, low, high),
\* ((amt)<(low)?(low):((amt)>(high)?(high):(amt))), for amt a uint32_t, low
\* an int and high a double: the value is a double
constrain(v, amt, low, high) ==
    IF amt < low THEN ToDouble(v, low)
    ELSE IF ToDouble(v, amt) > high THEN high
    ELSE ToDouble(v, amt)

\* the conversion of the double x to uint32_t; it is undefined when x is out
\* of range, ub is then the value the build produces
FromDouble(x, ub) == IF x <= UINT_MAX THEN x ELSE ub

\* strncmp(strCmd, prefix, Len(prefix)) == 0
HasPrefix(str, prefix) ==
    /\ Len(str) >= Len(prefix)
    /\ \A i \in 1..Len(prefix) : str[i] = prefix[i]

\* &strCmd[n]
From(str, n) == SubSeq(str, n + 1, Len(str))

\* ------------------------------------------------------------------- state
VARIABLES
    variant,    \* which build runs
    now,        \* uint32_t now
    DT,         \* uint32_t DT
    T_meas,     \* uint32_t T_meas (FEATHER_M4 only)
    f_running,  \* bool f_running
    t_start,    \* uint32_t t_start
    pulse_idx,  \* uint32_t pulse_idx
    f_HI,       \* bool f_HI
    t_HI,       \* uint32_t t_HI
    pin,        \* level of PIN_CAM_1, PIN_CAM_2 and LED_BUILTIN
    \* history of the run, read by the properties only
    cmd,        \* the line the last iteration handled (kept on request)
    mid,        \* the state in which the command of the last iteration left
                \* the program, with what it emitted, when cmd records the line
    log,        \* what the last iteration emitted, in order
    nAsserts,   \* asserts emitted since the last start
    dtSame,     \* DT has not changed since the last start
    everyMs,    \* no sample of this train came more than 1 ms after the one before
    hiAt,       \* the clock value since which the output is HIGH, -1 when LOW
    lastLate,   \* the clock time by which the last assert came after its phase
                \* reference, in a train sampled at every millisecond; -1 when
                \* the period was set after that assert
    gap,        \* the clock time between the assert of the last iteration and
                \* the assert before it, -1 when lastLate was or there is none
    span,       \* time since the last start, Modulus when unknown or beyond a lap
    sh,         \* the same train started at clock value 0
    shlog       \* what the last iteration of that train emitted

vars == <<variant, now, DT, T_meas, f_running, t_start, pulse_idx, f_HI, t_HI, pin,
          cmd, mid, log, nAsserts, dtSame, everyMs, hiAt, lastLate, gap,
          span, sh, shlog>>

\* the program state as a record; ser collects what an iteration emits
State == [now |-> now, DT |-> DT, T_meas |-> T_meas, f_running |-> f_running,
          t_start |-> t_start, pulse_idx |-> pulse_idx, f_HI |-> f_HI,
          t_HI |-> t_HI, pin |-> pin, ser |-> <<>>]

\* an emitted notification: ev is what happened, idx and t what a pulse line
\* of go_HI carries (pulse_idx and now - t_start)
Event(ev, idx, t) == [ev |-> ev, idx |-> idx, t |-> t]
Emit(s, ev) == [s EXCEPT !.ser = Append(@, Event(ev, 0, 0))]

\* ------------------------------------------------------------- functions
go_HI(s) ==
    LET idx == Add(s.pulse_idx, 1)
    IN  [s EXCEPT !.f_HI = TRUE,
                  !.pulse_idx = idx,
                  !.pin = "HIGH",
                  !.ser = Append(@, Event("HI", idx, Sub(s.now, s.t_start)))]

go_LO(s) ==
    [s EXCEPT !.f_HI = FALSE,
              !.pin = "LOW",
              !.ser = Append(@, Event("LO", 0, 0))]

\* mutant: start_train() that counts the immediate pulse before go_HI() does
start_train_DoubleCount(s, millis) ==
    go_HI([Emit(s, "STARTED") EXCEPT !.now = millis,
                                     !.t_start = millis,
                                     !.t_HI = millis,
                                     !.pulse_idx = 1])

\* mutant: start_train() that keeps the pulse count of the train before
start_train_KeepCount(s, millis) ==
    go_HI([Emit(s, "STARTED") EXCEPT !.now = millis,
                                     !.t_start = millis,
                                     !.t_HI = millis])

\* millis is the value millis() returns at line 122
start_train(s, millis) ==
    go_HI([Emit(s, "STARTED") EXCEPT !.now = millis,
                                     !.t_start = millis,
                                     !.t_HI = millis,
                                     !.pulse_idx = 0])

\* mutant: stop_train() that leaves the output as it is
stop_train_NoRelease(s) == Emit(s, "STOPPED")

stop_train(s) == go_LO(Emit(s, "STOPPED"))

\* ------------------------------------------------------- loop: the command
\* mutant: set_period restarting the phase at the clock value of the command
SetDT_Rephase(s, v, strCmd, ub) ==
    LET parsed == ToUnsigned(strtol(From(strCmd, 2)))
        clamped == constrain(v, parsed, CONSTRAIN_LOW, CONSTRAIN_HIGH(v))
    IN  Emit([s EXCEPT !.DT = FromDouble(clamped, ub), !.t_HI = s.now], "DT")

\* lines 185-191
SetDT(s, v, strCmd, ub) ==
    LET parsed == ToUnsigned(strtol(From(strCmd, 2)))
        clamped == constrain(v, parsed, CONSTRAIN_LOW, CONSTRAIN_HIGH(v))
    IN  Emit([s EXCEPT !.DT = FromDouble(clamped, ub)], "DT")

\* lines 194-200
SetTmeas(s, v, strCmd, ub) ==
    LET parsed == ToUnsigned(strtol(From(strCmd, 1)))
        clamped == constrain(v, parsed, CONSTRAIN_LOW, CONSTRAIN_HIGH(v))
    IN  Emit([s EXCEPT !.T_meas = FromDouble(clamped, ub)], "T_meas")

\* lines 203-210
Toggle(s, millis) ==
    LET t == [s EXCEPT !.f_running = ~s.f_running]
    IN  IF t.f_running THEN start_train(t, millis) ELSE stop_train(t)

\* lines 173-254, for the line strCmd
Command(s, v, strCmd, millis, ub) ==
    IF strCmd = <<"?">> THEN Emit(s, "SETTINGS")
    ELSE IF HasPrefix(strCmd, <<"D", "T">>) \/ HasPrefix(strCmd, <<"d", "t">>)
    THEN SetDT(s, v, strCmd, ub)
    ELSE IF v = "FEATHER_M4" /\ (HasPrefix(strCmd, <<"T">>) \/ HasPrefix(strCmd, <<"t">>))
    THEN SetTmeas(s, v, strCmd, ub)
    ELSE IF strCmd = <<"s">> THEN Toggle(s, millis)
    ELSE Emit(s, "HELP")

\* ---------------------------------------------------- loop: the scheduler
\* mutant: the duration check with > in place of >=
DurationCheck_Strict(s, v) ==
    IF v = "FEATHER_M4" /\ s.f_running /\ Sub(s.now, s.t_start) > s.T_meas
    THEN stop_train([s EXCEPT !.f_running = FALSE])
    ELSE s

\* mutant: the duration compared without the unsigned difference
DurationCheck_NoWrap(s, v) ==
    IF v = "FEATHER_M4" /\ s.f_running /\ s.now >= s.t_start + s.T_meas
    THEN stop_train([s EXCEPT !.f_running = FALSE])
    ELSE s

\* lines 259-264
DurationCheck(s, v) ==
    IF v = "FEATHER_M4" /\ s.f_running /\ Sub(s.now, s.t_start) >= s.T_meas
    THEN stop_train([s EXCEPT !.f_running = FALSE])
    ELSE s

\* mutant: the pulse width check with > in place of >=
DeassertCheck_Late(s) ==
    IF s.f_HI /\ Sub(s.now, s.t_HI) > PULSE_WIDTH THEN go_LO(s) ELSE s

\* lines 267-269
DeassertCheck(s) ==
    IF s.f_HI /\ Sub(s.now, s.t_HI) >= PULSE_WIDTH THEN go_LO(s) ELSE s

\* mutant: a retriggered timer, the phase reference set to the sampled clock
AssertCheck_Retrigger(s) ==
    IF Sub(s.now, s.t_HI) >= s.DT
    THEN go_HI([s EXCEPT !.t_HI = s.now])
    ELSE s

\* mutant: the period compared without the unsigned difference
AssertCheck_NoWrap(s) ==
    IF s.now >= s.t_HI + s.DT
    THEN go_HI([s EXCEPT !.t_HI = Add(@, s.DT)])
    ELSE s

\* mutant: the period check with > in place of >=
AssertCheck_Late(s) ==
    IF Sub(s.now, s.t_HI) > s.DT
    THEN go_HI([s EXCEPT !.t_HI = Add(@, s.DT)])
    ELSE s

\* mutant: the phase reference advanced to the last boundary that has passed
AssertCheck_Skip(s) ==
    IF Sub(s.now, s.t_HI) >= s.DT
    THEN go_HI([s EXCEPT !.t_HI = Add(@, s.DT * (Sub(s.now, s.t_HI) \div s.DT))])
    ELSE s

\* lines 271-274
AssertCheck(s) ==
    IF Sub(s.now, s.t_HI) >= s.DT
    THEN go_HI([s EXCEPT !.t_HI = Add(@, s.DT)])
    ELSE s

\* mutant: the scheduler without the test of f_running at line 266
Scheduler_NoGuard(s, v, millis) ==
    AssertCheck(DeassertCheck(DurationCheck([s EXCEPT !.now = millis], v)))

\* mutant: the scheduler asserting the next pulse before it releases the last
Scheduler_AssertFirst(s, v, millis) ==
    LET s1 == DurationCheck([s EXCEPT !.now = millis], v)
    IN  IF s1.f_running THEN DeassertCheck(AssertCheck(s1)) ELSE s1

\* mutant: the scheduler asserting a second pulse when that is due as well
Scheduler_CatchUp(s, v, millis) ==
    LET s1 == DurationCheck([s EXCEPT !.now = millis], v)
    IN  IF s1.f_running
        THEN AssertCheck(DeassertCheck(AssertCheck(DeassertCheck(s1)))) ELSE s1

\* lines 257-275; millis is the value millis() returns at line 257
Scheduler(s, v, millis) ==
    LET s1 == DurationCheck([s EXCEPT !.now = millis], v)
    IN  IF s1.f_running THEN AssertCheck(DeassertCheck(s1)) ELSE s1

\* lines 170-255: avail is sc.available(), strCmd the line sc.getCmd() returns
Interpreter(s, v, avail, strCmd, millis, ub) ==
    IF avail THEN Command(s, v, strCmd, millis, ub) ELSE s

\* a mark no uint32_t equals, in the place of the result of a conversion
Poison == Modulus

\* the command that led to c has converted an out-of-range double to uint32_t
Undefined(c) == c.DT = Poison \/ c.T_meas = Poison

\* the values such a conversion can produce
Outcomes(c) == IF Undefined(c) THEN 0..UINT_MAX ELSE {0}

\* ------------------------------------------------------------- the machine
\* no train is followed
NoShadow == [now |-> 0, DT |-> 0, T_meas |-> 0, f_running |-> FALSE,
             t_start |-> 0, pulse_idx |-> 0, f_HI |-> FALSE,
             t_HI |-> 0, pin |-> "LOW", ser |-> <<>>]

Init ==
    /\ variant \in Variants
    /\ now = 0
    /\ DT = Min(DT_DEFAULT, UINT_MAX)
    /\ T_meas = Min(T_MEAS_DEFAULT, UINT_MAX)
    /\ f_running = FALSE
    /\ t_start = 0
    /\ pulse_idx = 0
    /\ f_HI = FALSE
    /\ t_HI = 0
    /\ pin = "LOW"
    /\ cmd = <<>>
    /\ mid = NoShadow
    /\ log = <<>>
    /\ nAsserts = 0
    /\ dtSame = TRUE
    /\ everyMs = FALSE
    /\ hiAt = 0 - 1
    /\ lastLate = 0 - 1
    /\ gap = 0 - 1
    /\ span = Modulus
    /\ sh = NoShadow
    /\ shlog = <<>>

\* the notifications to the output driver among the events evs
DriverEvents == {"HI", "LO", "STARTED", "STOPPED"}
Driver(evs) == SelectSeq(evs, LAMBDA e : e.ev \in DriverEvents)

\* The pulse on the output after the events evs[i..]: <<at, ref>>, the clock
\* value of its assert and the phase reference t_HI of its assert, or
\* <<-1, -1>> when the output is LOW.  The first n events are emitted at clock
\* value m1 (the command), the others at m2 (the scheduler, which leaves the
\* phase reference at ref2); hi is the pulse before event i.
RECURSIVE Pulse(_, _, _, _, _, _, _)
Pulse(evs, i, n, m1, m2, ref2, hi) ==
    IF i > Len(evs) THEN hi
    ELSE Pulse(evs, i + 1, n, m1, m2, ref2,
               IF evs[i].ev = "HI" THEN (IF i <= n THEN <<m1, m1>> ELSE <<m2, ref2>>)
               ELSE IF evs[i].ev = "LO" THEN <<0 - 1, 0 - 1>>
               ELSE hi)

\* The events with by, the part of loop() that emitted them, and for a
\* de-assert that ends a pulse dur, the clock time the output has been HIGH,
\* and late, the clock time by which the pulse was asserted after its phase
\* reference; dur is -1 for a de-assert of a LOW output, and both are 0 for
\* the other events.
Timed(evs, n, m1, m2, ref2, hi0) ==
    [i \in 1..Len(evs) |->
        LET hi == IF evs[i].ev = "LO"
                  THEN Pulse(SubSeq(evs, 1, i - 1), 1, n, m1, m2, ref2, hi0)
                  ELSE <<0, 0>>
            ended == evs[i].ev = "LO" /\ hi[1] # 0 - 1
        IN  [ev |-> evs[i].ev, idx |-> evs[i].idx, t |-> evs[i].t,
             by |-> IF i <= n THEN "cmd" ELSE "tick",
             dur |-> IF ended THEN Sub(IF i <= n THEN m1 ELSE m2, hi[1])
                     ELSE IF evs[i].ev = "LO" THEN 0 - 1 ELSE 0,
             late |-> IF ended THEN Sub(hi[1], hi[2]) ELSE 0]]

HasEv(evs, ev) == \E i \in 1..Len(evs) : evs[i].ev = ev

\* the number of asserts among the events evs
Asserts(evs) == Cardinality({i \in 1..Len(evs) : evs[i].ev = "HI"})

\* one iteration of loop(): the command, if a line is available, is handled
\* at the clock value of the previous sample; the clock has advanced by d
\* when the scheduler samples it.  keep: the line and its reply are recorded.
LoopStep(avail, strCmd, d, keep) ==
    \E c0 \in {Interpreter(State, variant, avail, strCmd, now, Poison)} :
    \E ub \in Outcomes(c0) :
    \E c \in {IF Undefined(c0)
               THEN Interpreter(State, variant, avail, strCmd, now, ub) ELSE c0} :
    \E started \in {c.f_running /\ ~f_running} :
    \E active \in {f_running \/ started} :
        /\ started => now \in StartTimes
        /\ ~active => Add(now, d) \in IdleTimes
        /\ \E r \in {Scheduler(c, variant, Add(now, d))} :
           \E follow \in {f_running /\ span + d < Modulus} :
           \E sc \in {IF started
                      THEN Interpreter([State EXCEPT !.now = 0], variant, avail, strCmd, 0, ub)
                      ELSE IF follow THEN Interpreter(sh, variant, avail, strCmd, sh.now, ub)
                      ELSE NoShadow} :
           \E sr \in {IF started \/ follow
                      THEN Scheduler(sc, variant, Add(sc.now, d)) ELSE NoShadow} :
           \E evs \in {IF keep THEN r.ser ELSE Driver(r.ser)} :
           \E n \in {Len(IF keep THEN c.ser ELSE Driver(c.ser))} :
           \E hi0 \in {IF hiAt = 0 - 1 THEN <<0 - 1, 0 - 1>> ELSE <<hiAt, t_HI>>} :
           \E fine \in {r.f_running /\ (started \/ everyMs) /\ d <= 1} :
           \E lateMid \in {IF started THEN 0
                            ELSE IF HasEv(c.ser, "DT") THEN 0 - 1 ELSE lastLate} :
           \E tickHI \in {\E i \in (n + 1)..Len(evs) : evs[i].ev = "HI"} :
                /\ r.pulse_idx <= MaxPulses
                /\ now' = r.now
                /\ DT' = r.DT
                /\ T_meas' = r.T_meas
                /\ f_running' = r.f_running
                /\ t_start' = r.t_start
                /\ pulse_idx' = r.pulse_idx
                /\ f_HI' = r.f_HI
                /\ t_HI' = r.t_HI
                /\ pin' = r.pin
                /\ UNCHANGED variant
                /\ cmd' = (IF avail /\ keep THEN strCmd ELSE <<>>)
                /\ mid' = (IF avail /\ keep THEN c ELSE NoShadow)
                /\ log' = Timed(evs, n, now, r.now, r.t_HI, hi0)
                /\ nAsserts' = (IF ~r.f_running THEN 0
                                ELSE (IF started THEN 0 ELSE nAsserts) + Asserts(evs))
                /\ dtSame' = (~r.f_running \/ started \/ (dtSame /\ r.DT = DT))
                /\ everyMs' = (active /\ (started \/ everyMs) /\ d <= 1)
                /\ hiAt' = Pulse(evs, 1, n, now, r.now, r.t_HI, hi0)[1]
                /\ lastLate' = (IF ~fine THEN 0 - 1
                                ELSE IF tickHI THEN Sub(r.now, r.t_HI) ELSE lateMid)
                /\ gap' = (IF fine /\ tickHI /\ lateMid # 0 - 1
                           THEN r.DT + Sub(r.now, r.t_HI) - lateMid ELSE 0 - 1)
                /\ span' = (IF started THEN d ELSE IF follow THEN span + d ELSE Modulus)
                /\ sh' = [sr EXCEPT !.ser = <<>>]
                /\ shlog' = (IF started \/ follow THEN Driver(sr.ser) ELSE <<>>)

\* the clock advances the environment chooses from: G while a train runs or
\* starts, and whatever brings an idle loop to one of IdleTimes
GapsNow(G) ==
    IF f_running THEN G
    ELSE G \cup {d \in 0..UINT_MAX : Add(now, d) \in IdleTimes}

\* an iteration with no line available
LoopPoll(d) == LoopStep(FALSE, <<>>, d, FALSE)

\* an iteration that handles the line strCmd
LoopCommand(strCmd, d) == LoopStep(TRUE, strCmd, d, FALSE)

Lines == { <<"?">>, <<"s">>, <<"x">>, <<"D", "T", "3">>, <<"d", "t", "1", "2">>,
           <<"T", "1", "5">> }

Next ==
    \/ \E d \in GapsNow(Gaps) : LoopPoll(d)
    \/ \E strCmd \in Lines, d \in GapsNow(CmdGaps) : LoopCommand(strCmd, d)

Spec == Init /\ [][Next]_vars

\* ------------------------------------------------ the lines that set values
\* the decimal digits of v, as the operator types them
RECURSIVE DecStr(_)
DecStr(v) ==
    IF v < 10 THEN <<DigitChars[v + 1]>>
    ELSE DecStr(v \div 10) \o <<DigitChars[(v % 10) + 1]>>

\* the values the operator types: every value of a uint32_t
Values == 0..UINT_MAX

PeriodLines(v) == {<<"D", "T">> \o DecStr(v), <<"d", "t">> \o DecStr(v)}
DurationLines(v) == {<<"T">> \o DecStr(v), <<"t">> \o DecStr(v)}

\* an iteration that handles a line DT<v> or dt<v>, the line kept in cmd
SetPeriodLine(v) == \E strCmd \in PeriodLines(v) : LoopStep(TRUE, strCmd, 0, TRUE)

\* an iteration that handles a line T<v> or t<v>
SetDurationLine(v) == \E strCmd \in DurationLines(v) : LoopStep(TRUE, strCmd, 0, TRUE)

\* an iteration that handles the line s
ToggleLine == LoopStep(TRUE, <<"s">>, 0, TRUE)

\* lines DT... whose text is not an unsigned number: a negative number, no
\* number, a letter, white space or a sign before the digits, a letter after
SignedPeriodLines(v) == {<<"D", "T", "-">> \o DecStr(v)}
TextPeriodLines ==
    { <<"D", "T">>, <<"d", "t", "x">>, <<"D", "T", " ", "7">>, <<"D", "T", "+", "3">>,
      <<"D", "T", "5", "x">>, <<"D", "T", "-">> \o DecStr(Modulus + 8) }

\* an iteration that handles such a line
OtherPeriodLines == TextPeriodLines \cup UNION {SignedPeriodLines(v) : v \in Values}
SetPeriodText == \E strCmd \in OtherPeriodLines : LoopStep(TRUE, strCmd, 0, TRUE)

NextParse ==
    \/ \E v \in Values : SetPeriodLine(v)
    \/ \E v \in Values : SetDurationLine(v)
    \/ SetPeriodText

SpecParse == Init /\ [][NextParse]_vars

\* ------------------------------------------- the commands, one at a time
\* clock advance between two samples while a train runs: a pulse width and
\* one more, a period and one more
CmdSpecGaps == {6, 11}

\* lines that are none of ?, s, DT<n>, dt<n>, T<n>, t<n>: a letter, the empty
\* line, a capital S, s twice, a query with a letter after it, and DT, dt, T
\* and t with no number after them
OddLines ==
    { <<"x">>, <<>>, <<"S">>, <<"s", "s">>, <<"?", "x">>, <<"D", "T", "x">>,
      <<"d", "t">>, <<"T", "x">>, <<"t">> }

\* an iteration that handles the line strCmd, the scheduler sampling the
\* same clock value; the line and the state the command left are recorded
CommandLine(strCmd) == LoopStep(TRUE, strCmd, 0, TRUE)

NextCmd ==
    \/ \E d \in GapsNow(CmdSpecGaps) : LoopPoll(d)
    \/ \E strCmd \in Lines \cup OddLines : CommandLine(strCmd)

SpecCmd == Init /\ [][NextCmd]_vars

\* ------------------------------- the clock sampled at every millisecond
\* clock advance between two samples: none or one millisecond
MsGaps == {0, 1}

\* the lines the operator sends: settings at any time, s only to start
LiveLines == { <<"D", "T", "3">>, <<"T", "3">>, <<"T", "1", "5">> }

\* an iteration with no line available, a millisecond after the one before
Millisecond == LoopPoll(1)

NextLive ==
    \/ \E d \in GapsNow(MsGaps) : LoopPoll(d)
    \/ \E strCmd \in LiveLines, d \in MsGaps : LoopCommand(strCmd, d)
    \/ ~f_running /\ LoopCommand(<<"s">>, 0)

\* millis() advances while loop() runs
SpecLive == Init /\ [][NextLive]_vars /\ WF_vars(Millisecond)

\* ---------------------------------------------------------- the properties
Plain(evs) == [i \in 1..Len(evs) |-> Event(evs[i].ev, evs[i].idx, evs[i].t)]
\* the scheduler's asserts and de-asserts of the last iteration
TickAsserts == {i \in 1..Len(log) : log[i].ev = "HI" /\ log[i].by = "tick"}
Deasserts == {i \in 1..Len(log) : log[i].ev = "LO" /\ log[i].dur # 0 - 1}
ByStop(i) == i > 1 /\ log[i - 1].ev = "STOPPED"

\* C6: whenever no train runs the output is low: f_running = FALSE implies
\* f_HI = FALSE (and the pins are LOW), between any two iterations of loop().
C6_IdleImpliesLow == ~f_running => (~f_HI /\ pin = "LOW")

\* a train has just been stopped while its output was HIGH
C6_Witness ==
    /\ ~f_running
    /\ HasEv(log, "STOPPED")
    /\ \E i \in Deasserts : ByStop(i) /\ log[i].dur > 0

\* C7: among the notifications to the output driver no assert follows an
\* assert without a de-assert between them: every assert of an iteration
\* comes after a de-assert of the same iteration, or is its first change of
\* level and finds the output LOW.
Levels(evs) == SelectSeq(evs, LAMBDA e : e.ev \in {"HI", "LO"})
NoDoubleAssert(level, evs) ==
    \A i \in 1..Len(evs) :
        evs[i].ev = "HI" => (IF i = 1 THEN level = "LOW" ELSE evs[i - 1].ev = "LO")
C8_StrictPhase ==
    (f_running /\ dtSame) => t_HI = (t_start + (pulse_idx - 1) * DT) % Modulus

\* the third pulse of such a train, asserted by a tick that came late
C8_Witness ==
    /\ f_running /\ dtSame
    /\ pulse_idx >= 3
    /\ TickAsserts # {}
    /\ Sub(now, t_HI) > 0

\* C9: while a train runs pulse_idx is the number of asserts emitted since
\* its start, the assert of start_train() counted once; the k-th assert
\* carries the index k.
C9_PulseCount ==
    f_running =>
        /\ pulse_idx = nAsserts
        /\ \A i \in 1..Len(log) :
               log[i].ev = "HI" =>
                   log[i].idx = nAsserts - Cardinality({j \in i + 1..Len(log) : log[j].ev = "HI"})

\* the scenario of the specification at the model's scale: the third assert,
\* two periods after the start, carries the index 3
C9_Witness ==
    /\ f_running /\ dtSame
    /\ nAsserts = 3
    /\ \E i \in TickAsserts : log[i].idx = 3 /\ log[i].t = 2 * DT

\* the first periodic assert after a start carries the index 2
C9_WitnessSecond ==
    /\ f_running
    /\ nAsserts = 2
    /\ \E i \in TickAsserts : log[i].idx = 2

\* C3: with a duration configured (the FEATHER_M4 build) no train is left
\* running by an iteration whose sample has (now - t_start) >= T_meas; the
\* iteration that stops the train emits no assert after the stop, and an
\* iteration that leaves no train running has asserted only by start_train().
C3_DurationEnforced ==
    /\ (variant = "FEATHER_M4" /\ f_running) => Sub(now, t_start) < T_meas
    /\ \A i \in 1..Len(log) : \A j \in i + 1..Len(log) :
           log[i].ev = "STOPPED" => log[j].ev # "HI"
    /\ ~f_running => TickAsserts = {}

\* the scheduler has stopped a train at its duration, after its second pulse
C3_Witness ==
    /\ variant = "FEATHER_M4"
    /\ ~f_running
    /\ pulse_idx >= 2
    /\ Sub(now, t_start) >= T_meas
    /\ \E i \in 1..Len(log) : log[i].ev = "STOPPED" /\ log[i].by = "tick"

\* C4: while no train runs, an iteration that does not start one leaves the
\* output LOW, leaves pulse_idx and t_HI as they are and emits no assert,
\* at whatever clock value it samples.
C4_NoAssertWhileStopped ==
    [][(~f_running /\ ~HasEv(log', "STARTED")) =>
          /\ ~f_running' /\ ~f_HI' /\ pin' = "LOW"
          /\ pulse_idx' = pulse_idx /\ t_HI' = t_HI
          /\ ~HasEv(log', "HI")]_vars

\* a train was stopped after its second pulse, and the scheduler has since
\* sampled a clock value a period or more past the phase reference
C4_Witness ==
    /\ ~f_running
    /\ pulse_idx >= 2
    /\ log = <<>>
    /\ Sub(now, t_HI) >= DT

\* C5: a train and the same train started at clock value 0 (the same lines,
\* the same clock advances) emit the same events, with the same indexes and
\* elapsed times, at the same offsets from their start and are in the same
\* state relative to their start, for as long as the train is younger than
\* one lap of the counter.
C5_WrapEquivalence ==
    span < Modulus =>
        /\ Plain(log) = shlog
        /\ sh.now = Sub(now, t_start)
        /\ sh.t_start = 0
        /\ sh.t_HI = Sub(t_HI, t_start)
        /\ sh.f_running = f_running /\ sh.f_HI = f_HI /\ sh.pin = pin
        /\ sh.pulse_idx = pulse_idx
        /\ sh.DT = DT /\ sh.T_meas = T_meas

\* a train started before the wrap asserts a pulse after it
C5_Witness ==
    /\ span < Modulus
    /\ f_running
    /\ now < t_start
    /\ \E i \in TickAsserts : log[i].idx >= 2 /\ log[i].t = Sub(now, t_start)

\* a train started before the wrap is stopped at its duration after it
C5_WitnessStop ==
    /\ span < Modulus
    /\ ~f_running
    /\ now < t_start
    /\ \E i \in 1..Len(log) : log[i].ev = "STOPPED" /\ log[i].by = "tick"

\* C1 as stated: in a train whose period has not changed the clock time
\* between successive asserts is exactly DT for every sequence of sampled
\* clock values; the first assert being emitted at the start, the k-th
\* assert is then emitted exactly (k - 1) * DT after it.
C1_DriftFree_AnySchedule ==
    dtSame => \A i \in TickAsserts : log[i].t = ((log[i].idx - 1) * DT) % Modulus

\* C1, amended: in a train whose period has not changed the k-th assert is
\* emitted (k - 1) * DT after the start plus the time by which the sample of
\* its tick came after the phase reference, and that time is 0 when the
\* clock is sampled at every millisecond: successive asserts are then
\* exactly DT apart.
C1_DriftFree ==
    dtSame =>
        \A i \in TickAsserts :
            /\ log[i].t = ((log[i].idx - 1) * DT + Sub(now, t_HI)) % Modulus
            /\ everyMs => Sub(now, t_HI) = 0

\* the third assert of a train sampled at every millisecond
C1_Witness ==
    /\ dtSame /\ everyMs
    /\ \E i \in TickAsserts : log[i].idx = 3 /\ log[i].t = 2 * DT

\* an assert of a train sampled at coarser intervals, emitted late
C1_WitnessLate ==
    /\ dtSame /\ ~everyMs
    /\ \E i \in TickAsserts : log[i].idx >= 2 /\ Sub(now, t_HI) > 0

\* C2 as stated, for the pulses that the scheduler releases: with the clock
\* sampled at every millisecond every de-assert that ends a pulse comes
\* exactly PULSE_WIDTH after the assert of that pulse, also after the period
\* was changed during the train.
C2_ExactWidth_EveryPulse ==
    everyMs => \A i \in Deasserts : ~ByStop(i) => log[i].dur = PULSE_WIDTH

\* C2, the part that holds: with the clock sampled at every millisecond, a pulse that was
\* asserted at its phase reference and is not ended by stop_train() is
\* released exactly PULSE_WIDTH after its assert and not before; every pulse
\* of a running train whose period has not changed is asserted at its phase
\* reference.
C2_ExactWidth ==
    everyMs =>
        /\ \A i \in Deasserts :
               /\ (~ByStop(i) /\ log[i].late = 0) => log[i].dur = PULSE_WIDTH
               /\ (f_running /\ dtSame) => log[i].late = 0
        /\ (hiAt # 0 - 1 /\ hiAt = t_HI) => Sub(now, hiAt) < PULSE_WIDTH
        /\ (hiAt # 0 - 1 /\ dtSame) => hiAt = t_HI

\* the scheduler has released the second pulse of a train sampled at every
\* millisecond
C2_Witness ==
    /\ everyMs /\ f_running
    /\ pulse_idx >= 2
    /\ \E i \in Deasserts : ~ByStop(i) /\ log[i].by = "tick" /\ log[i].dur = PULSE_WIDTH

\* a pulse asserted late, after the period was lowered during the train, is
\* released less than PULSE_WIDTH after its assert
C2_WitnessLate ==
    /\ everyMs /\ f_running
    /\ \E i \in Deasserts : ~ByStop(i) /\ log[i].late > 0 /\ log[i].dur < PULSE_WIDTH

\* the value the clamping stores for v: min(max(v, 10), 2^w - 1)
Clamped(v) == Min(IF v < CONSTRAIN_LOW THEN CONSTRAIN_LOW ELSE v, UINT_MAX)

\* C10 as stated: after a line DT<v> the period, and after a line T<v> on the
\* variant that has a duration the duration, is min(max(v, 10), 2^w - 1), for
\* every v a uint32_t can hold.
C10_Clamp ==
    \A v \in Values :
        /\ cmd \in PeriodLines(v) => DT = Clamped(v)
        /\ (variant = "FEATHER_M4" /\ cmd \in DurationLines(v)) => T_meas = Clamped(v)

\* C10, the part that holds: the stored value is min(max(v, 10), LONG_MAX),
\* strtol() returning LONG_MAX for every v above it, rounded to a float on
\* the UNO.
C10_ClampUpToLongMax ==
    \A v \in Values :
        /\ cmd \in PeriodLines(v) => DT = ToDouble(variant, Min(Clamped(v), LONG_MAX))
        /\ (variant = "FEATHER_M4" /\ cmd \in DurationLines(v))
               => T_meas = Min(Clamped(v), LONG_MAX)
        /\ (variant = "UNO" /\ cmd \in DurationLines(v))
               => (T_meas = Min(T_MEAS_DEFAULT, UINT_MAX) /\ HasEv(log, "HELP"))

\* the line DT3 has stored the period 10
C10_WitnessLow == cmd = <<"D", "T", "3">> /\ DT = CONSTRAIN_LOW

\* a line T<v> with v above LONG_MAX has stored LONG_MAX
C10_WitnessSaturated ==
    /\ variant = "FEATHER_M4"
    /\ cmd = <<"T">> \o DecStr(UINT_MAX)
    /\ T_meas = LONG_MAX

\* C11: in every state, after set_period commands with any input, the pulse
\* width is below the period: PULSE_WIDTH < DT.
C11_WidthBelowPeriod == PULSE_WIDTH < DT

\* C11, the part that holds: on the FEATHER_M4, where double holds every
\* uint32_t, and on the UNO as long as no line made the conversion of the
\* clamped value to uint32_t undefined, the period is at least CONSTRAIN_LOW.
C11_PeriodAtLeastLow ==
    (variant = "FEATHER_M4"
        \/ ~Undefined(Interpreter(State, variant, cmd # <<>>, cmd, now, Poison))) =>
        (HasEv(log, "DT") => DT >= CONSTRAIN_LOW)

\* a line without a number has stored the period CONSTRAIN_LOW
C11_WitnessText == cmd = <<"d", "t", "x">> /\ DT = CONSTRAIN_LOW /\ HasEv(log, "DT")

\* the line DT-1 on the UNO has stored a period below the pulse width
C11_WitnessUndefined ==
    /\ variant = "UNO"
    /\ cmd = <<"D", "T", "-", "1">>
    /\ DT < PULSE_WIDTH


\* the events of kind ev that the scheduler emitted in the last iteration
TickEvs(ev) == {i \in 1..Len(log) : log[i].by = "tick" /\ log[i].ev = ev}

C12_WitnessStop ==
    /\ TickEvs("STOPPED") # {}
    /\ Sub(now, t_HI) >= DT


\* C13 as stated, for the asserts after a set_period during a train sampled
\* at every millisecond: every two successive asserts with no set_period
\* since the first of them are exactly the period apart.
C13_PeriodChange == gap # 0 - 1 => gap = DT

\* C13, the part that holds: two successive asserts with no set_period since
\* the first are at most the period apart, and exactly the period when the
\* period has not changed during the train, every assert then coming at its
\* phase reference.
C13_PeriodChangeAtMost ==
    /\ gap # 0 - 1 => gap <= DT
    /\ (gap # 0 - 1 /\ dtSame) => gap = DT
    /\ \A i \in TickAsserts : (everyMs /\ dtSame) => lastLate = 0

\* a period set during a train, both asserts after it at their phase
\* references
C13_WitnessOnTime == ~dtSame /\ gap = DT /\ pulse_idx >= 3

\* a period lowered late in a train: two asserts one millisecond apart
C13_WitnessBurst == ~dtSame /\ gap = 1


\* the lines of the command surface: DT<n>, dt<n>, T<n>, t<n> with n an
\* unsigned decimal number, and ?
IsNumber(str) == Len(str) > 0 /\ \A i \in 1..Len(str) : isdigit(str[i])
IsPeriodLine(str) ==
    /\ HasPrefix(str, <<"D", "T">>) \/ HasPrefix(str, <<"d", "t">>)
    /\ IsNumber(From(str, 2))
IsDurationLine(str) ==
    /\ HasPrefix(str, <<"T">>) \/ HasPrefix(str, <<"t">>)
    /\ IsNumber(From(str, 1))
IsQueryLine(str) == str = <<"?">>

\* C14: the command part of an iteration that handles DT<n>, T<n> or ? leaves
\* f_running, f_HI and the pins, t_start, t_HI and pulse_idx as they were and
\* emits no assert and no de-assert; DT<n> leaves T_meas and T<n> leaves DT
\* as it was.
C14_ConfigFrame ==
    [][(IsPeriodLine(cmd') \/ IsDurationLine(cmd') \/ IsQueryLine(cmd')) =>
          /\ mid'.f_running = f_running
          /\ mid'.f_HI = f_HI /\ mid'.pin = pin
          /\ mid'.t_start = t_start
          /\ mid'.t_HI = t_HI
          /\ mid'.pulse_idx = pulse_idx
          /\ ~HasEv(mid'.ser, "HI") /\ ~HasEv(mid'.ser, "LO")
          /\ IsPeriodLine(cmd') => mid'.T_meas = T_meas
          /\ IsDurationLine(cmd') => mid'.DT = DT
          /\ IsQueryLine(cmd') => (mid'.DT = DT /\ mid'.T_meas = T_meas)]_vars

\* a period set while the second pulse of a train is HIGH, a full period
\* after the phase reference set at the start
C14_Witness ==
    /\ cmd = <<"D", "T", "3">>
    /\ mid.f_running /\ mid.f_HI /\ mid.pulse_idx = 2
    /\ mid.DT = CONSTRAIN_LOW
    /\ mid.t_HI # mid.now

\* a duration set while a train runs with the output LOW
C14_WitnessDuration ==
    /\ variant = "FEATHER_M4"
    /\ cmd = <<"T", "1", "5">>
    /\ mid.f_running /\ ~mid.f_HI
    /\ mid.T_meas = 15


\* C15: the line s, handled while no train runs, leaves f_running and f_HI
\* true, the pins HIGH, pulse_idx = 1 and t_start = t_HI = the clock value
\* sampled at the start, whatever these held before; handled while a train
\* runs it leaves f_running and f_HI false and the pins LOW, whether the
\* output was HIGH or LOW.
C15_StartStop ==
    [][cmd' = <<"s">> =>
          /\ ~f_running =>
                 /\ mid'.f_running /\ mid'.f_HI /\ mid'.pin = "HIGH"
                 /\ mid'.pulse_idx = 1
                 /\ mid'.now = now
                 /\ mid'.t_start = mid'.now /\ mid'.t_HI = mid'.now
          /\ f_running =>
                 /\ ~mid'.f_running /\ ~mid'.f_HI /\ mid'.pin = "LOW"]_vars

\* a train started at a clock value other than 0
C15_Witness ==
    /\ cmd = <<"s">>
    /\ mid.f_running /\ mid.pulse_idx = 1
    /\ mid.t_start = Modulus - 3 /\ mid.t_HI = Modulus - 3

\* a train stopped while the output was HIGH
C15_WitnessStopHigh ==
    /\ cmd = <<"s">>
    /\ ~mid.f_running /\ ~mid.f_HI
    /\ \E i \in 1..Len(log) : log[i].ev = "LO" /\ log[i].by = "cmd" /\ log[i].dur >= 0

\* a train stopped while the output was LOW
C15_WitnessStopLow ==
    /\ cmd = <<"s">>
    /\ ~mid.f_running /\ ~mid.f_HI
    /\ \E i \in 1..Len(log) : log[i].ev = "LO" /\ log[i].by = "cmd" /\ log[i].dur = 0 - 1


\* the last iteration has handled a line
Handled(m) == m.ser # <<>>
\* the line is none of ?, s, DT<n>, dt<n>, T<n>, t<n>
Unrecognized(str) ==
    /\ str # <<"?">> /\ str # <<"s">>
    /\ ~IsPeriodLine(str) /\ ~IsDurationLine(str)
\* the command has printed the help and left the settings and the train alone
HelpOnly(m) ==
    /\ HasEv(m.ser, "HELP")
    /\ m.DT = DT /\ m.T_meas = T_meas
    /\ m.f_running = f_running /\ m.f_HI = f_HI /\ m.pulse_idx = pulse_idx

\* C16 as stated: every line that is not ?, not s and not DT, dt, T or t
\* followed by an unsigned decimal number prints the help and leaves DT,
\* T_meas, f_running, f_HI and pulse_idx unchanged, on both variants.
C16_UnrecognizedHelp ==
    [][(Handled(mid') /\ Unrecognized(cmd')) => HelpOnly(mid')]_vars

\* C16, the part that holds: such a line prints the help and changes nothing
\* unless it begins with DT or dt or, on the FEATHER_M4, with T or t.
C16_HelpWithoutPrefix ==
    [][(/\ Handled(mid') /\ Unrecognized(cmd')
        /\ ~HasPrefix(cmd', <<"D", "T">>) /\ ~HasPrefix(cmd', <<"d", "t">>)
        /\ variant = "FEATHER_M4" =>
               (~HasPrefix(cmd', <<"T">>) /\ ~HasPrefix(cmd', <<"t">>)))
          => HelpOnly(mid')]_vars

\* the empty line has printed the help while a train runs
C16_WitnessHelp ==
    /\ Handled(mid) /\ cmd = <<>>
    /\ HasEv(mid.ser, "HELP") /\ mid.f_running

\* the line dt, with no number, has set the period of a running train and
\* printed no help
C16_WitnessNoHelp ==
    /\ cmd = <<"d", "t">>
    /\ ~HasEv(mid.ser, "HELP") /\ mid.DT = CONSTRAIN_LOW /\ mid.f_running


\* C17: on the variant with a duration, with the clock sampled at every
\* millisecond and no s while a train runs, every train that runs eventually
\* stops, whatever DT... and T... lines are handled during the train and
\* wherever the train started.
C17_Terminates == (variant = "FEATHER_M4" /\ f_running) ~> ~f_running

\* a train started before the wrap of the clock, its period and duration
\* set on the way, has been stopped for its duration after the wrap
C17_Witness ==
    /\ variant = "FEATHER_M4"
    /\ ~f_running /\ TickEvs("STOPPED") # {}
    /\ t_start > now
    /\ DT = CONSTRAIN_LOW /\ T_meas = 15


C18_WitnessHigh ==
    /\ f_running /\ everyMs /\ dtSame
    /\ pulse_idx = 3 /\ f_HI /\ t_start > now
    /\ Sub(now, t_HI) = PULSE_WIDTH - 1


\* the events of kind ev that the command emitted in the last iteration
CmdEvs(ev) == {i \in 1..Len(log) : log[i].by = "cmd" /\ log[i].ev = ev}

C19_WitnessSecond ==
    /\ f_running /\ dtSame
    /\ TickEvs("LO") # {} /\ TickEvs("HI") # {} /\ pulse_idx = 3
    /\ \E i \in TickEvs("LO") : log[i].late >= DT /\ log[i].dur <= 1
    /\ Sub(now, t_HI) < DT

=============================================================================
